---- MODULE Spec2Model ----
(***************************************************************************)
(* Model of the multi-agent coordinator: MASCoordinator.handle_request     *)
(* (task/agent.py), GPAGateway.response and __prepare_gpa_messages         *)
(* (task/coordination/gpa.py) and the transport wrapper                     *)
(* MASCoordinatorApplication.chat_completion (task/app.py).                 *)
(*                                                                         *)
(* Texts are sequences of tokens, so string concatenation is \o and the    *)
(* empty string is <<>>.  An absent (None) value is the sentinel None.     *)
(* An opaque state value is a sequence of keys: None, Empty (the dict {}), *)
(* a plain dict <<"S1">>, or the wrapper {is_gpa: True, gpa_messages: s},  *)
(* written <<"is_gpa">> \o s.                                              *)
(***************************************************************************)
EXTENDS Integers, Sequences, FiniteSets, TLC

\* ---------------------------------------------------------------- bounds
MaxFrags == 3
MaxPlan == 2
MaxTurns == 2
MaxSynth == 1
MaxSynthDeltas == 2
MaxHist == 3

\* ------------------------------------------------------------ vocabulary
None == <<"None">>
Empty == <<"Empty">>
_IS_GPA == "is_gpa"

Truthy(v) == v # None /\ v # <<>> /\ v # Empty

StreamStates == {None, Empty, <<"S1">>, <<"S2">>}
Tokens == {None, <<>>, <<"a">>, <<"b">>}
AttLists == {None, <<>>, <<"A1">>, <<"A2">>}
StageIdx == {0, 1}

Unset == <<"unset">>

AbsentCC == [present |-> FALSE, attachments |-> <<>>, state |-> None, stages |-> None]
NoMessage == [role |-> "none", content |-> <<>>, custom_content |-> AbsentCC]
NoSynthSeen == [n |-> 0, text |-> <<>>]
UserMsg(t) == [role |-> "user", content |-> t, custom_content |-> AbsentCC]

VARIABLES
    pc,              \* position of the turn's task
    turn,            \* number of the current inbound request
    request,         \* request.messages of the current turn
    plan,            \* coordination_request.agent_calls
    agent_messages,  \* agent_messages of handle_request
    dispatched,      \* agent calls started so far in this turn (entry numbers)
    sections,        \* stages created on the choice, in creation order
    choice,          \* content, attachments and state of the caller-visible choice
    stages_map,      \* stages_map of GPAGateway.response: index -> position in sections (0: absent)
    content,         \* content of GPAGateway.response
    result_cc,       \* result_custom_content of GPAGateway.response
    seen,            \* what the current call's stream has carried so far: the number of
                     \* fragments, their texts, their attachments, the last state carried
    gpa_sent,        \* the outgoing message list of the current general-purpose call
    synth,           \* content of __final_response
    marked,          \* positions of the sections that received status=completed
    processing_stage,\* position in sections of handle_request's processing_stage (0: none)
    exported,        \* per turn: the aggregated state the turn's set_state wrapped (Unset: none)
    error,           \* what failed the turn ("none" while it has not failed)
    synth_messages,  \* messages of __final_response as sent to the synthesis model
    synth_seen,      \* what the synthesis stream has carried: number of chunks, their texts
    final_response   \* the message __final_response returned (NoMessage: none yet)

vars == <<pc, turn, request, plan, agent_messages, dispatched, sections, choice,
          stages_map, content, result_cc, seen, gpa_sent, synth, marked,
          processing_stage, exported, error, synth_messages, synth_seen,
          final_response>>

\* variables of __final_response besides its content
synthVars == <<synth_messages, synth_seen, final_response>>

\* call-local variables of GPAGateway.response
gpaLocals == <<stages_map, content, result_cc, seen, gpa_sent, marked>>

\* ------------------------------------------------- progress sections
\* StageProcessor.open_stage: a new open section at the end of the choice's
\* stages.  call and idx record who opened it (call 0: the coordinator's
\* planning section; idx -1: opened by the coordinator, not by a stream index).
open_stage(secs, name, call, idx) ==
    Append(secs, [name |-> name, content |-> <<>>, attachments |-> <<>>,
                  status |-> "open", call |-> call, idx |-> idx])

\* StageProcessor.close_stage_safely: idempotent close.
close_stage_safely(secs, k) == [secs EXCEPT ![k].status = "closed"]

NoStages == [i \in StageIdx |-> 0]
FreshChoice == [content |-> <<>>, attachments |-> <<>>, state |-> None,
                state_submitted |-> FALSE]
FreshCC == [attachments |-> <<>>, state |-> None]
NoDelta == [content |-> None, attachments |-> None, state |-> None, stages |-> <<>>]
NothingSeen == [n |-> 0, text |-> <<>>, attachments |-> <<>>, state |-> None,
                last |-> NoDelta]

\* The value of an optional text or list field: None contributes nothing.
ValueOf(v) == IF v = None THEN <<>> ELSE v

Init ==
    /\ pc = "plan"
    /\ turn = 1
    /\ request = <<UserMsg(<<"q">>)>>
    /\ plan = <<>>
    /\ agent_messages = <<>>
    /\ dispatched = <<>>
    /\ sections = open_stage(<<>>, "Coordination Request", 0, -1)
    /\ choice = FreshChoice
    /\ stages_map = NoStages
    /\ content = <<>>
    /\ result_cc = FreshCC
    /\ seen = NothingSeen
    /\ gpa_sent = <<>>
    /\ synth = <<>>
    /\ marked = {}
    /\ processing_stage = 0
    /\ exported = <<Unset>>
    /\ error = "none"
    /\ synth_messages = <<>>
    /\ synth_seen = NoSynthSeen
    /\ final_response = NoMessage

\* ------------------------------------------------------ opaque state
\* The wrapper {is_gpa: True, gpa_messages: s} that response() exports.
Wrap(s) == <<_IS_GPA>> \o s

\* msg_state.get(_IS_GPA)
GetIsGpa(s) == Len(s) > 0 /\ Head(s) = _IS_GPA

\* The wrapper is handed on as it is.
GetGpaMessages_wrapped(s) == s

\* msg_state.get(_GPA_MESSAGES)
GetGpaMessages(s) == IF GetIsGpa(s) THEN Tail(s) ELSE None

\* ------------------------------------------- outgoing message list
\* msg.dict(exclude_none=True): a custom_content that is None is left out.
Dict(msg) ==
    [role |-> msg.role, content |-> msg.content,
     custom_content |-> IF msg.custom_content.present THEN msg.custom_content ELSE AbsentCC]

\* request.messages[i - 1] for the 0-based i of enumerate; k is 1-based, and
\* Python's index -1 is the last message.
Predecessor(msgs, k) == IF k = 1 THEN msgs[Len(msgs)] ELSE msgs[k - 1]

\* deepcopy(msg) with custom_content.state replaced by the inner state.
Restored(msg) ==
    [msg EXCEPT !.custom_content.state = GetGpaMessages(msg.custom_content.state)]

IsGpaAssistant(msg) ==
    /\ msg.role = "assistant"
    /\ msg.custom_content.present
    /\ Truthy(msg.custom_content.state)
    /\ GetIsGpa(msg.custom_content.state)

RECURSIVE ScanHistory(_, _)
ScanHistory(msgs, k) ==
    IF k > Len(msgs) THEN <<>>
    ELSE (IF IsGpaAssistant(msgs[k])
          THEN <<Dict(Predecessor(msgs, k)), Dict(Restored(msgs[k]))>>
          ELSE <<>>) \o ScanHistory(msgs, k + 1)

prepare_gpa_messages(msgs, additional_instructions) ==
    LET last_user_msg == msgs[Len(msgs)] IN
    ScanHistory(msgs, 1) \o
    << IF Truthy(additional_instructions)
       THEN [role |-> "user",
             content |-> last_user_msg.content \o <<"\n\n">> \o additional_instructions,
             custom_content |-> Dict(last_user_msg).custom_content]
       ELSE Dict(last_user_msg) >>

\* ------------------------------------------------------ error path
\* The failed step is entered again.
OnError_retry(position) == position

\* Where the task is after an exception raised at the given position:
\* handle_request, __final_response and the gateways have no try block, and
\* chat_completion logs the exception and re-raises it (app.py lines 36-41),
\* so the turn is over.
OnError(position) == "failed"

\* ------------------------------------------------------------ planning
AgentNames == {"GPA", "UMS"}
Instructions == {None, <<"i">>}
Entries == {e \in [agent_name : AgentNames, additional_instructions : Instructions] :
                e.agent_name = "UMS" => e.additional_instructions = None}

RECURSIVE SeqsUpTo(_, _)
SeqsUpTo(S, n) ==
    IF n = 0 THEN {<<>>}
    ELSE LET shorter == SeqsUpTo(S, n - 1) IN
         shorter \cup {Append(q, x) : q \in shorter, x \in S}

\* A plan entry whose agent name has no gateway.
OtherEntry == [agent_name |-> "OTHER", additional_instructions |-> None]

TurnPlans == SeqsUpTo(Entries \cup {OtherEntry}, MaxPlan)

CallName(agent_name) ==
    IF agent_name = "GPA" THEN "Call GPA Agent"
    ELSE IF agent_name = "UMS" THEN "Call UMS Agent"
    ELSE "Call OTHER Agent"

\* Every agent name is taken to have a gateway.
HasGateway_any(agent_name) == TRUE

\* __handle_coordination_request, lines 113-128: the names that reach a
\* gateway; any other name reaches the raise of line 128.
HasGateway(agent_name) == agent_name \in AgentNames

\* handle_request, lines 37-42: the planning call returned a valid plan.
PlanOk(plans) ==
    /\ pc = "plan"
    /\ \E p \in plans :
         /\ plan' = p
         /\ sections' = close_stage_safely(
                [sections EXCEPT ![1].content = @ \o <<"json">>], 1)
    /\ pc' = "loop"
    /\ UNCHANGED <<turn, request, agent_messages, dispatched, choice, gpaLocals,
                   synth, synthVars, processing_stage, exported, error>>

\* __prepare_coordination_request raises: the call failed, or json.loads or
\* model_validate rejected the reply.
PlanFail ==
    /\ pc = "plan"
    /\ pc' = OnError(pc)
    /\ error' = "planning"
    /\ UNCHANGED <<turn, request, plan, agent_messages, dispatched, sections, choice,
                   gpaLocals, synth, synthVars, processing_stage, exported>>

\* The loop never moves past the first entry.
NextEntry_first(msgs) == 1

\* for agent_call in coordination_request.agent_calls (line 45): the entry
\* the loop takes when the earlier ones have returned their messages.
NextEntry(msgs) == Len(msgs) + 1

Last(q) == q[Len(q)]

\* handle_request, lines 45-53: the loop takes the next plan entry, opens its
\* section and enters the gateway; response() builds the message list and
\* initialises its accumulators (gpa.py lines 26-43).
Dispatch ==
    /\ pc = "loop"
    /\ Len(agent_messages) < Len(plan)
    /\ HasGateway(plan[NextEntry(agent_messages)].agent_name)
    /\ LET n == NextEntry(agent_messages)
           agent_call == plan[n]
       IN /\ sections' = open_stage(sections, CallName(agent_call.agent_name), n, -1)
          /\ processing_stage' = Len(sections) + 1
          /\ dispatched' = Append(dispatched, n)
          /\ IF agent_call.agent_name = "GPA"
             THEN /\ pc' = "gpa"
                  /\ gpa_sent' = prepare_gpa_messages(request,
                                     agent_call.additional_instructions)
             ELSE /\ pc' = "ums"
                  /\ gpa_sent' = <<>>
    /\ stages_map' = NoStages
    /\ content' = <<>>
    /\ result_cc' = FreshCC
    /\ seen' = NothingSeen
    /\ marked' = {}
    /\ UNCHANGED <<turn, request, plan, agent_messages, choice, synth, synthVars, exported, error>>

\* handle_request, lines 45-53, for an entry whose agent has no gateway:
\* the section is opened (line 47) and __handle_coordination_request raises
\* ValueError (line 128) before any gateway is entered.
DispatchUnknown ==
    /\ pc = "loop"
    /\ Len(agent_messages) < Len(plan)
    /\ ~HasGateway(plan[NextEntry(agent_messages)].agent_name)
    /\ LET n == NextEntry(agent_messages)
       IN /\ sections' = open_stage(sections, CallName(plan[n].agent_name), n, -1)
          /\ processing_stage' = Len(sections) + 1
    /\ pc' = OnError(pc)
    /\ error' = "unknown-agent"
    /\ UNCHANGED <<turn, request, plan, agent_messages, dispatched, choice, gpaLocals,
                   synth, synthVars, exported>>

\* ------------------------------------------------- delta aggregation
NoName == "<none>"
\* The text and the attachment a nested update for index i can carry.
StageText(i) == IF i = 0 THEN <<"c0">> ELSE <<"c1">>
StageAtt(i) == IF i = 0 THEN <<"X0">> ELSE <<"X1">>
Updates == {u \in [index : StageIdx, name : {NoName, "Searching"},
                   content : {None, <<"c0">>, <<"c1">>},
                   attachments : {None, <<"X0">>, <<"X1">>},
                   status : {"none", "completed"}] :
              /\ u.content \in {None, StageText(u.index)}
              /\ u.attachments \in {None, StageAtt(u.index)}}

\* An update that carries a name opens a section even when its index is
\* already in stages_map.
ApplyStage_named(stg, st, call) ==
    LET idx == stg.index
        opened_stg == st.stages_map[idx]
    IN
    IF opened_stg # 0 /\ stg.name = NoName
    THEN IF Truthy(stg.content)
         THEN IF st.sections[opened_stg].status = "closed"
              THEN [st EXCEPT !.raised = TRUE]
              ELSE [st EXCEPT !.sections[opened_stg].content = @ \o stg.content]
         ELSE IF Truthy(stg.attachments)
         THEN IF st.sections[opened_stg].status = "closed"
              THEN [st EXCEPT !.raised = TRUE]
              ELSE [st EXCEPT !.sections[opened_stg].attachments = @ \o stg.attachments]
         ELSE IF stg.status = "completed"
         THEN [st EXCEPT !.sections = close_stage_safely(@, opened_stg),
                         !.marked = @ \cup {opened_stg}]
         ELSE st
    ELSE [st EXCEPT !.sections = open_stage(@, stg.name, call, idx),
                    !.stages_map[idx] = Len(st.sections) + 1]

\* One nested-section update (gpa.py lines 62-72) applied to
\* st = [sections, stages_map, marked, raised].  Stage.append_content and
\* Stage.add_attachment of the SDK raise on a stage that is already closed.
ApplyStage(stg, st, call) ==
    LET idx == stg.index
        opened_stg == st.stages_map[idx]
    IN
    IF opened_stg # 0
    THEN IF Truthy(stg.content)
         THEN IF st.sections[opened_stg].status = "closed"
              THEN [st EXCEPT !.raised = TRUE]
              ELSE [st EXCEPT !.sections[opened_stg].content = @ \o stg.content]
         ELSE IF Truthy(stg.attachments)
         THEN IF st.sections[opened_stg].status = "closed"
              THEN [st EXCEPT !.raised = TRUE]
              ELSE [st EXCEPT !.sections[opened_stg].attachments = @ \o stg.attachments]
         ELSE IF stg.status = "completed"
         THEN [st EXCEPT !.sections = close_stage_safely(@, opened_stg),
                         !.marked = @ \cup {opened_stg}]
         ELSE st
    ELSE [st EXCEPT !.sections = open_stage(@, stg.name, call, idx),
                    !.stages_map[idx] = Len(st.sections) + 1]

\* for stg in stages (line 61); an exception ends the loop.
RECURSIVE ApplyStages(_, _, _)
ApplyStages(stages, st, call) ==
    IF stages = <<>> \/ st.raised THEN st
    ELSE ApplyStages(Tail(stages), ApplyStage(Head(stages), st, call), call)

\* New text is put in front of the text so far.
AppendText_front(text, delta_content) ==
    IF Truthy(delta_content) THEN delta_content \o text ELSE text

\* content += delta.content, and stage.append_content(delta.content), under
\* "if delta and delta.content" (lines 49-51).
AppendText(text, delta_content) ==
    IF Truthy(delta_content) THEN text \o delta_content ELSE text

\* An attachment that is already in the list is not added again.
ExtendAttachments_dedup(attachments, cc_attachments) ==
    IF Truthy(cc_attachments)
    THEN attachments \o SelectSeq(cc_attachments,
                            LAMBDA a : \A j \in DOMAIN attachments : attachments[j] # a)
    ELSE attachments

\* result_custom_content.attachments.extend(cc.attachments) under
\* "if cc.attachments" (lines 53-54).
ExtendAttachments(attachments, cc_attachments) ==
    IF Truthy(cc_attachments) THEN attachments \o cc_attachments ELSE attachments

\* result_custom_content.state = cc.state under "if cc.state" (lines 56-57).
OverwriteState(state, cc_state) == IF Truthy(cc_state) THEN cc_state ELSE state

\* The body of the async-for loop for one chunk (gpa.py lines 46-72).
GPAChunk(F) ==
    /\ pc = "gpa"
    /\ seen.n < MaxFrags
    /\ \E delta \in F :
         LET withText == [sections EXCEPT ![processing_stage].content =
                                              AppendText(@, delta.content)]
             st == ApplyStages(delta.stages,
                       [sections |-> withText, stages_map |-> stages_map,
                        marked |-> marked, raised |-> FALSE],
                       Last(dispatched))
         IN /\ seen' = [n |-> seen.n + 1,
                        text |-> seen.text \o ValueOf(delta.content),
                        attachments |-> seen.attachments \o ValueOf(delta.attachments),
                        state |-> IF delta.state = None THEN seen.state
                                  ELSE delta.state,
                        last |-> delta]
            /\ content' = AppendText(content, delta.content)
            /\ result_cc' =
                 [attachments |-> ExtendAttachments(result_cc.attachments,
                                                    delta.attachments),
                  state |-> OverwriteState(result_cc.state, delta.state)]
            /\ sections' = st.sections
            /\ marked' = st.marked
            /\ stages_map' = st.stages_map
            /\ pc' = IF st.raised THEN OnError(pc) ELSE "gpa"
            /\ error' = IF st.raised THEN "closed-stage" ELSE error
    /\ UNCHANGED <<turn, request, plan, agent_messages, dispatched, choice, gpa_sent,
                   synth, synthVars, processing_stage, exported>>

\* The streamed call raises: at create (line 32) or while the loop awaits
\* the next chunk (line 45).  Nothing between there and app.py's except
\* clause catches it.
GPAFail ==
    /\ pc = "gpa"
    /\ pc' = OnError(pc)
    /\ error' = "agent"
    /\ UNCHANGED <<turn, request, plan, agent_messages, dispatched, sections, choice,
                   gpaLocals, synth, synthVars, processing_stage, exported>>

\* The closing loop after the stream is left out.
CloseAll_none(secs, positions) == secs

RECURSIVE CloseAll(_, _)
\* for stg in stages_map.values(): close_stage_safely(stg) (lines 75-76)
CloseAll(secs, positions) ==
    IF positions = {} THEN secs
    ELSE LET k == CHOOSE x \in positions : TRUE
         IN CloseAll(close_stage_safely(secs, k), positions \ {k})

\* for attachment in result_custom_content.attachments:
\* choice.add_attachment(...) (lines 78-81)
AddAttachments(choice_attachments, attachments) == choice_attachments \o attachments

OpenedPositions(map) == {map[i] : i \in DOMAIN map} \ {0}

\* The stream ended (gpa.py lines 73-93), and handle_request collects the
\* message and closes its section (agent.py lines 48, 54).  Choice.set_state
\* of the SDK raises when the choice's state was already set.
GPAEnd ==
    /\ pc = "gpa"
    /\ LET closed == CloseAll(sections, OpenedPositions(stages_map))
           attached == [choice EXCEPT !.attachments =
                                          AddAttachments(@, result_cc.attachments)]
       IN IF choice.state_submitted
          THEN /\ sections' = closed
               /\ choice' = attached
               /\ pc' = OnError(pc)
               /\ error' = "state-twice"
               /\ UNCHANGED <<agent_messages, exported>>
          ELSE /\ sections' = close_stage_safely(closed, processing_stage)
               /\ choice' = [attached EXCEPT !.state = Wrap(result_cc.state),
                                             !.state_submitted = TRUE]
               /\ exported' = [exported EXCEPT ![turn] = result_cc.state]
               /\ agent_messages' = Append(agent_messages,
                      [role |-> "assistant", content |-> content,
                       custom_content |-> AbsentCC, by |-> Last(dispatched)])
               /\ pc' = "loop"
               /\ UNCHANGED error
    /\ UNCHANGED <<turn, request, plan, dispatched, gpaLocals, synth, synthVars, processing_stage>>

\* ---------------------------------------------- specialized service agent
\* UMSAgentGateway.response returns a terminal message (its streaming is
\* not part of this model), and handle_request collects it and closes the
\* section.  CCs are the custom contents the message can carry.
UMSReturnWith(CCs) ==
    /\ pc = "ums"
    /\ \E text \in {<<>>, <<"u">>}, cc \in CCs :
         /\ sections' = close_stage_safely(
                [sections EXCEPT ![processing_stage].content = @ \o text],
                processing_stage)
         /\ agent_messages' = Append(agent_messages,
                [role |-> "assistant", content |-> text,
                 custom_content |-> cc, by |-> Last(dispatched)])
    /\ pc' = "loop"
    /\ UNCHANGED <<turn, request, plan, dispatched, choice, gpaLocals, synth, synthVars,
                   processing_stage, exported, error>>

UMSReturn == UMSReturnWith({AbsentCC})

UMSFail ==
    /\ pc = "ums"
    /\ pc' = OnError(pc)
    /\ error' = "agent"
    /\ UNCHANGED <<turn, request, plan, agent_messages, dispatched, sections, choice,
                   gpaLocals, synth, synthVars, processing_stage, exported>>

\* ------------------------------------------------------------ synthesis
\* __prepare_messages (agent.py lines 86-104): the system prompt, then the
\* history; a user message with custom content is sent as its text alone.
RECURSIVE Transcribe(_)
Transcribe(msgs) ==
    IF msgs = <<>> THEN <<>>
    ELSE LET message == Head(msgs) IN
         << IF message.role = "user" /\ message.custom_content.present
            THEN [role |-> "user", content |-> message.content,
                  custom_content |-> AbsentCC]
            ELSE Dict(message) >> \o Transcribe(Tail(msgs))

prepare_messages(msgs, system_prompt) ==
    <<[role |-> "system", content |-> <<system_prompt>>,
       custom_content |-> AbsentCC]>> \o Transcribe(msgs)

\* The blocks are numbered from 0.
ContextLabel_zero(i) == ToString(i)

\* The number in f"## CONTEXT {i + 1}:\n" for the 0-based i of enumerate
\* (line 139).
ContextLabel(i) == ToString(i + 1)

\* "\n".join([f"## CONTEXT {i + 1}:\n {msg.content}" ...]) from the block of
\* 0-based index i on (line 139).
RECURSIVE JoinBlocks(_, _)
JoinBlocks(msgs, i) ==
    LET block == <<"## CONTEXT ", ContextLabel(i), ":\n ">> \o msgs[i + 1].content IN
    IF i + 1 = Len(msgs) THEN block
    ELSE block \o <<"\n">> \o JoinBlocks(msgs, i + 1)

\* context of __final_response (lines 138-143).
BuildContext(msgs) ==
    IF Len(msgs) > 1 THEN JoinBlocks(msgs, 0)
    ELSE IF Len(msgs) = 1 THEN <<"## CONTEXT:\n ">> \o msgs[1].content
    ELSE <<"No agent calls">>

Separator == <<"\n ---\n ## USER_REQUEST: \n ">>

\* handle_request leaves the loop and __final_response builds its messages
\* and starts the streamed synthesis call (agent.py lines 56-62, 136-154).
SynthStart ==
    /\ pc = "loop"
    /\ Len(agent_messages) = Len(plan)
    /\ LET messages == prepare_messages(request, "FINAL_RESPONSE_SYSTEM_PROMPT")
           updated_user_request ==
               BuildContext(agent_messages) \o Separator
                   \o messages[Len(messages)].content
       IN synth_messages' =
              [messages EXCEPT ![Len(messages)].content = updated_user_request]
    /\ pc' = "synth"
    /\ UNCHANGED <<turn, request, plan, agent_messages, dispatched, sections, choice,
                   gpaLocals, synth, synth_seen, final_response, processing_stage,
                   exported, error>>

SynthTexts == {<<"x">>, <<"y">>}

\* New text is put in front of the text so far.
SynthAppend_front(text, delta_content) ==
    IF Truthy(delta_content) THEN delta_content \o text ELSE text

\* choice.append_content(delta.content) and content += delta.content under
\* "if delta and delta.content" (agent.py lines 160-162).
SynthAppend(text, delta_content) ==
    IF Truthy(delta_content) THEN text \o delta_content ELSE text

\* One chunk of the synthesis stream (agent.py lines 157-162).
SynthChunk(texts, max) ==
    /\ pc = "synth"
    /\ synth_seen.n < max
    /\ \E text \in texts :
         /\ choice' = [choice EXCEPT !.content = SynthAppend(@, text)]
         /\ synth' = SynthAppend(synth, text)
         /\ synth_seen' = [n |-> synth_seen.n + 1,
                           text |-> synth_seen.text \o ValueOf(text)]
    /\ UNCHANGED <<pc, turn, request, plan, agent_messages, dispatched, sections,
                   gpaLocals, processing_stage, exported, error, synth_messages,
                   final_response>>

SynthFail ==
    /\ pc = "synth"
    /\ pc' = OnError(pc)
    /\ error' = "synthesis"
    /\ UNCHANGED <<turn, request, plan, agent_messages, dispatched, sections, choice,
                   gpaLocals, synth, synthVars, processing_stage, exported>>

\* One pass of the merge loop (agent.py lines 166-171) over acc = [cc, raised]:
\* the first custom content is copied; a later one extends the copy's stages
\* and attachments, and list.extend raises when either list is None.
MergeStep(acc, cc) ==
    IF acc.raised \/ ~cc.present THEN acc
    ELSE IF ~acc.cc.present THEN [acc EXCEPT !.cc = cc]
    ELSE IF acc.cc.stages = None \/ cc.stages = None
            \/ acc.cc.attachments = None \/ cc.attachments = None
    THEN [acc EXCEPT !.raised = TRUE]
    ELSE [acc EXCEPT !.cc.stages = @ \o cc.stages,
                     !.cc.attachments = @ \o cc.attachments]

\* for msg in agent_messages (lines 164-171)
RECURSIVE MergeFrom(_, _, _)
MergeFrom(msgs, i, acc) ==
    IF i > Len(msgs) THEN acc
    ELSE MergeFrom(msgs, i + 1, MergeStep(acc, msgs[i].custom_content))

MergeCustomContent(msgs) == MergeFrom(msgs, 1, [cc |-> AbsentCC, raised |-> FALSE])

\* The synthesis stream ended: the merge, the returned message, and the
\* return of handle_request (agent.py lines 164-177, 64-66).
SynthEnd ==
    /\ pc = "synth"
    /\ LET merged == MergeCustomContent(agent_messages) IN
       IF merged.raised
       THEN /\ pc' = OnError(pc)
            /\ error' = "merge"
            /\ UNCHANGED final_response
       ELSE /\ pc' = "done"
            /\ final_response' = [role |-> "assistant", content |-> synth,
                                  custom_content |-> merged.cc]
            /\ UNCHANGED error
    /\ UNCHANGED <<turn, request, plan, agent_messages, dispatched, sections, choice,
                   gpaLocals, synth, synth_messages, synth_seen, processing_stage,
                   exported>>

\* ------------------------------------------------------------ next turn
\* chat_completion is entered again: the caller sends the history extended
\* by the assistant message it received (text, attachments and state of the
\* choice) and a new user message; handle_request opens the planning section.
NextTurn ==
    /\ pc = "done"
    /\ turn < MaxTurns
    /\ turn' = turn + 1
    /\ request' = request \o
         << [role |-> "assistant", content |-> choice.content,
             custom_content |->
                 IF choice.state_submitted \/ choice.attachments # <<>>
                 THEN [present |-> TRUE, attachments |-> choice.attachments,
                       state |-> choice.state, stages |-> None]
                 ELSE AbsentCC],
            UserMsg(<<"q">>) >>
    /\ pc' = "plan"
    /\ plan' = <<>>
    /\ agent_messages' = <<>>
    /\ dispatched' = <<>>
    /\ sections' = open_stage(<<>>, "Coordination Request", 0, -1)
    /\ choice' = FreshChoice
    /\ stages_map' = NoStages
    /\ content' = <<>>
    /\ result_cc' = FreshCC
    /\ seen' = NothingSeen
    /\ marked' = {}
    /\ gpa_sent' = <<>>
    /\ synth' = <<>>
    /\ processing_stage' = 0
    /\ exported' = Append(exported, Unset)
    /\ synth_messages' = <<>>
    /\ synth_seen' = NoSynthSeen
    /\ final_response' = NoMessage
    /\ UNCHANGED error

\* ------------------------------------------------------ specifications
Delta(c, a, s, stages) == [content |-> c, attachments |-> a, state |-> s, stages |-> stages]
Update(i, n, c, a, status) ==
    [index |-> i, name |-> n, content |-> c, attachments |-> a, status |-> status]

\* The chunks a stream of the whole-turn specification can carry.
TurnDeltas ==
    { Delta(<<"a">>, None, None, <<>>),
      Delta(None, <<"A1">>, <<"S1">>, <<>>),
      Delta(None, None, <<"S2">>, <<>>),
      Delta(None, None, None, <<Update(0, "Searching", None, None, "none")>>),
      Delta(None, None, None, <<Update(0, NoName, None, None, "completed")>>) }

Next ==
    \/ PlanOk(TurnPlans)
    \/ PlanFail
    \/ Dispatch
    \/ DispatchUnknown
    \/ GPAChunk(TurnDeltas)
    \/ GPAFail
    \/ GPAEnd
    \/ UMSReturn
    \/ UMSFail
    \/ SynthStart
    \/ SynthChunk(SynthTexts, MaxSynth)
    \/ SynthFail
    \/ SynthEnd

Spec == Init /\ [][Next]_vars

\* Successive turns of one conversation.
RoundDeltas ==
    { Delta(<<"a">>, None, None, <<>>),
      Delta(None, <<"A1">>, None, <<>>),
      Delta(None, None, Empty, <<>>),
      Delta(None, None, <<"S1">>, <<>>),
      Delta(None, None, <<"S2">>, <<>>) }

RoundPlans == SeqsUpTo(Entries, 1)

NextRound ==
    \/ PlanOk(RoundPlans)
    \/ Dispatch
    \/ GPAChunk(RoundDeltas)
    \/ GPAEnd
    \/ UMSReturn
    \/ SynthStart
    \/ SynthChunk(SynthTexts, MaxSynth)
    \/ SynthEnd
    \/ NextTurn

SpecRound == Init /\ [][NextRound]_vars

\* One general-purpose call, with every shape of chunk.
SomeUpdates ==
    { Update(0, "Searching", None, None, "none"),
      Update(0, NoName, <<"c0">>, None, "none"),
      Update(0, NoName, None, None, "completed"),
      Update(1, "Searching", None, None, "none") }

AggDeltas ==
    {Delta(c, None, None, <<>>) : c \in Tokens}
    \cup {Delta(None, a, s, <<>>) : a \in AttLists, s \in StreamStates}
    \cup {Delta(<<"a">>, <<"A1">>, <<"S1">>, <<>>)}
    \cup {Delta(None, None, None, <<u>>) : u \in Updates}
    \cup {Delta(None, None, None, <<u, v>>) : u \in SomeUpdates, v \in SomeUpdates}
    \cup {Delta(<<"a">>, None, None, <<u>>) : u \in SomeUpdates}

AggPlans == {<<[agent_name |-> "GPA", additional_instructions |-> None]>>}

NextAgg ==
    \/ PlanOk(AggPlans)
    \/ Dispatch
    \/ GPAChunk(AggDeltas)
    \/ GPAFail
    \/ GPAEnd
    \/ SynthStart

SpecAgg == Init /\ [][NextAgg]_vars

\* One turn seen from the synthesis step: short agent streams, messages of
\* the specialized-service agent with and without custom content, and every
\* shape of synthesis chunk.
SynthDeltas == {Delta(<<"a">>, None, None, <<>>), Delta(<<"b">>, None, None, <<>>)}

SynthPlans ==
    SeqsUpTo({e \in Entries : e.additional_instructions = None}, MaxPlan)

CC(stages, attachments) ==
    [present |-> TRUE, attachments |-> attachments, state |-> None, stages |-> stages]

UMSContents ==
    { AbsentCC,
      CC(<<"G1">>, <<"U1">>),
      CC(<<"G2">>, <<"U2">>),
      CC(None, <<"U3">>) }

AllSynthTexts == {None, <<>>, <<"x">>, <<"y">>}

NextSynth ==
    \/ PlanOk(SynthPlans)
    \/ Dispatch
    \/ GPAChunk(SynthDeltas)
    \/ GPAEnd
    \/ UMSReturnWith(UMSContents)
    \/ SynthStart
    \/ SynthChunk(AllSynthTexts, MaxSynthDeltas)
    \/ SynthFail
    \/ SynthEnd

SpecSynth == Init /\ [][NextSynth]_vars

\* One general-purpose call on every history of a bounded shape.
StateCC(state) ==
    [present |-> TRUE, attachments |-> <<>>, state |-> state, stages |-> None]

HistUsers ==
    { UserMsg(<<"q1">>),
      [role |-> "user", content |-> <<"q2">>,
       custom_content |-> [present |-> TRUE, attachments |-> <<"F">>,
                           state |-> None, stages |-> None]] }

HistAssistants ==
    { [role |-> "assistant", content |-> <<"r">>, custom_content |-> cc] :
        cc \in { AbsentCC, StateCC(None), StateCC(<<"S1">>),
                 StateCC(Wrap(None)), StateCC(Wrap(<<"S1">>)) } }

Histories ==
    { Append(h, u) : h \in SeqsUpTo(HistUsers \cup HistAssistants, MaxHist - 1),
                     u \in HistUsers }

HistPlans == { <<e>> : e \in {x \in Entries : x.agent_name = "GPA"} }

InitHist ==
    /\ pc = "plan"
    /\ turn = 1
    /\ request \in Histories
    /\ plan = <<>>
    /\ agent_messages = <<>>
    /\ dispatched = <<>>
    /\ sections = open_stage(<<>>, "Coordination Request", 0, -1)
    /\ choice = FreshChoice
    /\ stages_map = NoStages
    /\ content = <<>>
    /\ result_cc = FreshCC
    /\ seen = NothingSeen
    /\ gpa_sent = <<>>
    /\ synth = <<>>
    /\ marked = {}
    /\ processing_stage = 0
    /\ exported = <<Unset>>
    /\ error = "none"
    /\ synth_messages = <<>>
    /\ synth_seen = NoSynthSeen
    /\ final_response = NoMessage

NextHist ==
    \/ PlanOk(HistPlans)
    \/ Dispatch
    \/ GPAFail
    \/ GPAEnd
    \/ SynthStart

SpecHist == InitHist /\ [][NextHist]_vars

\* ============================================================== claims
Positions == DOMAIN sections
IsNested(k) == sections[k].idx # -1
Returned == pc \in {"loop", "synth", "done"} /\ processing_stage # 0
AllIn(q, S) == \A j \in DOMAIN q : q[j] \in S

\* C1: when the general-purpose call returns, every nested section it opened
\* for a stream index is closed, with or without a completed marker.
C1_NestedClosedOnReturn ==
    Returned => \A k \in Positions : IsNested(k) => sections[k].status = "closed"

\* A call has returned and one of its nested sections never got a marker.
C1_Witness ==
    /\ Returned
    /\ \E k \in Positions : IsNested(k) /\ k \notin marked
                            /\ sections[k].status = "closed"

\* C2: when an agent's streamed call has failed, every section opened for
\* that call (nested ones and the coordinator's) is closed.
C2_ClosedOnAgentFailure ==
    (pc = "failed" /\ error = "agent") =>
        \A k \in Positions : sections[k].call = Last(dispatched) =>
                             sections[k].status = "closed"

\* C3: the accumulated content, and the text forwarded to the call's own
\* section, equal the concatenation of the fragments' content fields in
\* arrival order; no top-level text reaches a nested section; the returned
\* message carries that content.
C3_ContentIsConcatenation ==
    processing_stage # 0 =>
        /\ content = seen.text
        /\ sections[processing_stage].content = seen.text
        /\ \A k \in Positions :
               IsNested(k) => AllIn(sections[k].content, {"c0", "c1"})
        /\ Returned => Last(agent_messages).content = seen.text

\* A call returned after two different texts arrived.
C3_Witness ==
    /\ Returned
    /\ Len(seen.text) >= 2
    /\ seen.text[1] # seen.text[2]

\* C4: within one call every stream index is opened as a section at most
\* once, the index map points at that section, a section only ever holds
\* the text and attachments sent for its own index, and an update with
\* content (or, without content, with attachments) for an index whose section
\* is open extends exactly that section.
C4_StateOk ==
    /\ \A j, k \in Positions :
           (IsNested(j) /\ sections[j].call = sections[k].call
                        /\ sections[j].idx = sections[k].idx) => j = k
    /\ \A i \in StageIdx :
           stages_map[i] # 0 =>
               /\ sections[stages_map[i]].idx = i
               /\ sections[stages_map[i]].call = Last(dispatched)
    /\ \A k \in Positions :
           /\ IsNested(k) =>
                 /\ AllIn(sections[k].content, {StageText(sections[k].idx)[1]})
                 /\ AllIn(sections[k].attachments, {StageAtt(sections[k].idx)[1]})
           /\ ~IsNested(k) =>
                 /\ AllIn(sections[k].content, {"json", "a", "b", "u"})
                 /\ sections[k].attachments = <<>>

C4_StepOk ==
    (pc = "gpa" /\ seen'.n = seen.n + 1 /\ Len(seen'.last.stages) = 1) =>
        LET u == seen'.last.stages[1]
            k == stages_map[u.index]
        IN (k # 0 /\ sections[k].status = "open") =>
              /\ Len(sections') = Len(sections)
              /\ stages_map' = stages_map
              /\ Truthy(u.content) =>
                     sections'[k].content = sections[k].content \o u.content
              /\ (~Truthy(u.content) /\ Truthy(u.attachments)) =>
                     sections'[k].attachments =
                         sections[k].attachments \o u.attachments
              /\ \A j \in Positions : (j # k /\ IsNested(j)) =>
                                          sections'[j] = sections[j]

C4_IndexOpenedOnce == [](C4_StateOk) /\ [][C4_StepOk]_vars

\* Both indices are open, and index 0 got two content updates.
C4_Witness ==
    /\ pc = "gpa"
    /\ stages_map[0] # 0 /\ stages_map[1] # 0
    /\ Len(sections[stages_map[0]].content) = 2

\* C5: once a nested section has received status=completed, no later update
\* changes it, and none fails the turn.
C5_LateUpdatesIgnored ==
    [][ /\ \A k \in marked : turn' = turn => sections'[k] = sections[k]
        /\ error' # "closed-stage" ]_vars

\* A chunk whose only payload is a completed marker for one index.
IsBareMarker(d) ==
    /\ d.content = None /\ d.attachments = None /\ d.state = None
    /\ Len(d.stages) = 1
    /\ d.stages[1].status = "completed"
    /\ d.stages[1].content = None /\ d.stages[1].attachments = None

\* C6: a completed marker for an index that was never opened in this call
\* opens no section, changes no section and does not fail the turn.
C6_UnopenedMarkerIgnored ==
    [][ (/\ pc = "gpa"
         /\ seen'.n = seen.n + 1
         /\ IsBareMarker(seen'.last)
         /\ stages_map[seen'.last.stages[1].index] = 0)
        => (sections' = sections /\ pc' # "failed") ]_vars

\* C7: when the stream has ended, the accumulated state is the state of the
\* last fragment that carried one, an empty object included, and is absent
\* when none carried one.
C7_LastStateWins == Returned => result_cc.state = seen.state

\* C8: an assistant message of the history that carries the wrapper of an
\* earlier turn's aggregated state S is itself unchanged, and the outgoing
\* list of a general-purpose call holds its reconstruction with state S.
C8_StateRoundTrip ==
    \A t \in 1..(turn - 1) :
        exported[t] # Unset =>
            LET h == request[2 * t] IN
            /\ h.role = "assistant"
            /\ h.custom_content.state = Wrap(exported[t])
            /\ gpa_sent # <<>> =>
                   \E j \in DOMAIN gpa_sent :
                       /\ gpa_sent[j].role = "assistant"
                       /\ gpa_sent[j].content = h.content
                       /\ gpa_sent[j].custom_content.state = exported[t]

\* The second turn's general-purpose call was sent the state S1 that the
\* first turn exported.
C8_Witness ==
    /\ turn = 2
    /\ pc = "gpa"
    /\ exported[1] = <<"S1">>
    /\ gpa_sent # <<>>

\* C9: every section of an earlier call is closed once a later call has
\* opened one, at most one call is in flight, and synthesis runs only when
\* every planned call has returned its message.
C9_SequentialCalls ==
    /\ \A j, k \in Positions :
           sections[j].call < sections[k].call => sections[j].status = "closed"
    /\ Len(dispatched) - Len(agent_messages) \in {0, 1}
    /\ pc \in {"gpa", "ums"} <=> (Len(dispatched) = Len(agent_messages) + 1
                                  /\ pc # "failed")
    /\ pc \in {"synth", "done"} =>
           /\ Len(agent_messages) = Len(plan)
           /\ \A k \in Positions : sections[k].status = "closed"

\* The second call is in flight and the first call had a nested section.
C9_Witness ==
    /\ pc = "gpa"
    /\ Len(agent_messages) = 1
    /\ \E k \in Positions : IsNested(k) /\ sections[k].call = 1

\* C10: the calls are dispatched one per plan entry in plan order, each
\* under its entry's agent name, and synthesis gets one message per entry,
\* the i-th from the i-th entry.
C10_OneCallPerEntry ==
    /\ Len(dispatched) <= Len(plan)
    /\ \A i \in DOMAIN dispatched : dispatched[i] = i
    /\ \A i \in DOMAIN agent_messages : agent_messages[i].by = i
    /\ \A k \in Positions :
           (~IsNested(k) /\ sections[k].call >= 1) =>
               sections[k].name = CallName(plan[sections[k].call].agent_name)
    /\ pc \in {"synth", "done"} =>
           /\ Len(agent_messages) = Len(plan)
           /\ Len(dispatched) = Len(plan)

\* Synthesis started after a plan of two different agents.
C10_Witness ==
    /\ pc = "synth"
    /\ Len(plan) = 2
    /\ plan[1].agent_name # plan[2].agent_name

\* C11: when a plan entry names an agent that has no gateway, no agent call
\* is started for that entry or for a later one, synthesis never starts, and
\* once the loop has reached the entry the turn has failed with the
\* unknown-agent error.
C11_UnknownAgentFailsTurn ==
    \A u \in DOMAIN plan :
        plan[u].agent_name \notin AgentNames =>
            /\ \A i \in DOMAIN dispatched : dispatched[i] < u
            /\ Len(agent_messages) < u
            /\ pc \notin {"synth", "done"}
            /\ synth = <<>> /\ choice.content = <<>>
            /\ error = "unknown-agent" =>
                   (pc = "failed" /\ Len(dispatched) = Len(agent_messages))

\* The turn failed on an unknown second entry after the first call returned.
C11_Witness ==
    /\ error = "unknown-agent"
    /\ Len(plan) = 2
    /\ Len(agent_messages) = 1
    /\ plan[2].agent_name \notin AgentNames

\* The numbered blocks 1..n of the agent messages, built from the last one back.
RECURSIVE NumberedBlocks(_)
NumberedBlocks(n) ==
    LET block == <<"## CONTEXT ", ToString(n), ":\n ">> \o agent_messages[n].content IN
    IF n = 1 THEN block ELSE NumberedBlocks(n - 1) \o <<"\n">> \o block

\* C12: the text sent to synthesis as the last message is the context (the
\* no-agent-calls marker for no message, one unnumbered block for one,
\* blocks CONTEXT 1..N in plan order for N >= 2, each with its message's
\* content verbatim), then the separator, then the last history message's
\* own text; the earlier messages are the transcribed history.
C12_SynthesisContext ==
    synth_messages # <<>> =>
        LET N == Len(agent_messages)
            sent == Last(synth_messages).content
            tail == Separator \o Last(request).content
        IN /\ Len(synth_messages) = Len(request) + 1
           /\ \A k \in 1..(Len(request) - 1) :
                  synth_messages[k + 1].content = request[k].content
           /\ N = 0 => sent = <<"No agent calls">> \o tail
           /\ N = 1 => sent = <<"## CONTEXT:\n ">> \o agent_messages[1].content \o tail
           /\ N >= 2 => sent = NumberedBlocks(N) \o tail

\* Synthesis was sent two blocks with different contents.
C12_Witness ==
    /\ pc = "synth"
    /\ Len(agent_messages) = 2
    /\ agent_messages[1].content # agent_messages[2].content
    /\ agent_messages[1].content # <<>>

RECURSIVE StagesUpTo(_)
StagesUpTo(n) ==
    IF n = 0 THEN <<>>
    ELSE StagesUpTo(n - 1) \o
         (IF agent_messages[n].custom_content.present
          THEN ValueOf(agent_messages[n].custom_content.stages) ELSE <<>>)

RECURSIVE AttachmentsUpTo(_)
AttachmentsUpTo(n) ==
    IF n = 0 THEN <<>>
    ELSE AttachmentsUpTo(n - 1) \o
         (IF agent_messages[n].custom_content.present
          THEN ValueOf(agent_messages[n].custom_content.attachments) ELSE <<>>)

\* C13: building the returned message's side channel never fails; it holds
\* the sections and attachments of every agent message that has custom
\* content, in plan order, and is absent exactly when none has any.
C13_SideChannelMerged ==
    /\ error # "merge"
    /\ pc = "done" =>
           LET cc == final_response.custom_content IN
           /\ cc.present <=> \E i \in DOMAIN agent_messages :
                                 agent_messages[i].custom_content.present
           /\ cc.present =>
                  /\ ValueOf(cc.stages) = StagesUpTo(Len(agent_messages))
                  /\ ValueOf(cc.attachments) = AttachmentsUpTo(Len(agent_messages))

\* C14: at every step the text forwarded to the caller equals the text
\* accumulated from the synthesis chunks so far; the returned assistant
\* message carries the concatenation of all of them; when the stream fails
\* the forwarded text stays and the turn has failed.
C14_SynthesisStreaming ==
    /\ choice.content = synth_seen.text
    /\ synth = synth_seen.text
    /\ pc = "done" => /\ final_response.role = "assistant"
                      /\ final_response.content = synth_seen.text
    /\ error = "synthesis" => pc = "failed"

\* The synthesis stream failed after two different texts were forwarded.
C14_Witness ==
    /\ error = "synthesis"
    /\ Len(choice.content) = 2
    /\ choice.content[1] # choice.content[2]

\* The order of the pipeline's positions.
Rank(position) ==
    IF position = "plan" THEN 0
    ELSE IF position \in {"loop", "gpa", "ums"} THEN 1
    ELSE IF position = "synth" THEN 2
    ELSE 3

\* C15: a failure ends the turn: the step that records an error leaves the
\* task failed, no step follows it, the planning call, each plan entry's call
\* and the synthesis call are each made at most once, and the pipeline never
\* goes back to an earlier step.
C15_FailureEndsTurn ==
    [][ /\ error = "none"
        /\ error' # "none" => pc' = "failed"
        /\ Rank(pc') >= Rank(pc)
        /\ pc = "plan" => pc' # "plan"
        /\ pc' = "synth" => (pc = "loop" \/ pc = "synth")
        /\ \/ dispatched' = dispatched
           \/ /\ Len(dispatched') = Len(dispatched) + 1
              /\ \A i \in DOMAIN dispatched : dispatched[i] # Last(dispatched') ]_vars

\* An agent call failed and the plan's later entry was never dispatched.
C15_Witness ==
    /\ pc = "failed"
    /\ error = "agent"
    /\ Len(plan) = 2
    /\ Len(dispatched) = 1

\* C16: when planning has failed nothing was streamed: no content token, no
\* agent section, and no progress section left open.
C16_NoOutputOnPlanningFailure ==
    error = "planning" =>
        /\ choice.content = <<>>
        /\ \A k \in Positions : sections[k].call = 0
        /\ \A k \in Positions : sections[k].status = "closed"

\* C17: the accumulated attachment list is the concatenation, in arrival
\* order and with duplicates, of the fragments' top-level attachment lists;
\* the response gets none of them while the stream runs, and each of them
\* once, in that order, when it has ended.
C17_AttachmentsInOrder ==
    processing_stage # 0 =>
        /\ result_cc.attachments = seen.attachments
        /\ pc = "gpa" => choice.attachments = <<>>
        /\ Returned => choice.attachments = seen.attachments

\* A call returned after the same attachment arrived twice and another once.
C17_Witness ==
    /\ Returned
    /\ Len(seen.attachments) = 3
    /\ seen.attachments[1] = seen.attachments[2]
    /\ seen.attachments[2] # seen.attachments[3]

\* An assistant message whose state carries this variant's tag.
IsTagged(msg) ==
    /\ msg.role = "assistant"
    /\ msg.custom_content.present
    /\ Len(msg.custom_content.state) > 0
    /\ msg.custom_content.state[1] = _IS_GPA

\* What the history positions 1..k contribute to the outgoing list: for a
\* tagged assistant message, the message at the position before it (there is
\* none before position 1) and the message with the wrapper taken off.
RECURSIVE OutgoingUpTo(_)
OutgoingUpTo(k) ==
    IF k = 0 THEN <<>>
    ELSE OutgoingUpTo(k - 1) \o
         (IF IsTagged(request[k])
          THEN (IF k > 1 THEN <<request[k - 1]>> ELSE <<>>) \o
               <<[request[k] EXCEPT !.custom_content.state =
                      SubSeq(@, 2, Len(@))]>>
          ELSE <<>>)

\* C18: the outgoing message list is, for each tagged assistant message in
\* history order, the message at the previous history position and the
\* reconstructed assistant message, and then the latest message, with the
\* additional instructions appended to its text when there are any.
C18_OutgoingMessages ==
    gpa_sent # <<>> =>
        LET instr == plan[Last(dispatched)].additional_instructions
            latest == Last(request)
        IN gpa_sent = OutgoingUpTo(Len(request)) \o
               << IF instr = None THEN latest
                  ELSE [latest EXCEPT !.content = @ \o <<"\n\n">> \o instr] >>

\* A chunk that carries one nested-section update and nothing else, handled
\* without an exception.
C19_Step ==
    /\ pc = "gpa"
    /\ seen'.n = seen.n + 1
    /\ seen'.last.content = None
    /\ Len(seen'.last.stages) = 1
    /\ pc' # "failed"

\* C19: an update for an index not yet seen only opens a section with the
\* update's name, and none of its content, attachments or status is applied;
\* an update for an index already seen applies only the first present of
\* its content, its attachments and its completed marker.
C19_OneEffectPerUpdate ==
    [][ C19_Step =>
          LET u == seen'.last.stages[1]
              k == stages_map[u.index]
              n == Len(sections)
          IN IF k = 0
             THEN /\ Len(sections') = n + 1
                  /\ SubSeq(sections', 1, n) = sections
                  /\ sections'[n + 1].name = u.name
                  /\ sections'[n + 1].content = <<>>
                  /\ sections'[n + 1].attachments = <<>>
                  /\ sections'[n + 1].status = "open"
                  /\ stages_map' = [stages_map EXCEPT ![u.index] = n + 1]
             ELSE /\ stages_map' = stages_map
                  /\ sections' =
                       [sections EXCEPT ![k] =
                          IF Truthy(u.content)
                          THEN [@ EXCEPT !.content = @ \o u.content]
                          ELSE IF Truthy(u.attachments)
                          THEN [@ EXCEPT !.attachments = @ \o u.attachments]
                          ELSE IF u.status = "completed"
                          THEN [@ EXCEPT !.status = "closed"]
                          ELSE @] ]_vars

\* An update with content, attachments and a completed marker has been applied
\* to an open section: the content is there, the section is still open.
C19_Witness ==
    /\ pc = "gpa"
    /\ Len(seen.last.stages) = 1
    /\ LET u == seen.last.stages[1]
           k == stages_map[u.index]
       IN /\ Truthy(u.content) /\ Truthy(u.attachments) /\ u.status = "completed"
          /\ k # 0
          /\ sections[k].content = u.content
          /\ sections[k].attachments = <<>>
          /\ sections[k].status = "open"

\* The stream of a general-purpose call has ended: the step that leaves the
\* loop of gpa.py without an exception from the stream or from a section.
C20_StreamEnds ==
    /\ pc = "gpa"
    /\ pc' # "gpa"
    /\ seen' = seen
    /\ error' \notin {"agent", "closed-stage"}

\* C20: when the stream of a general-purpose call has ended, the state on
\* the turn's response is the wrapper of that call's aggregated state (of an
\* absent state when the stream carried none), the message the call returns
\* carries no state, and the turn goes on; so after the turn the visible
\* state is the one of the last general-purpose call of the plan.
C20_StateOfLastCall ==
    [][ C20_StreamEnds =>
          /\ choice'.state = Wrap(result_cc.state)
          /\ pc' = "loop"
          /\ Len(agent_messages') = Len(agent_messages) + 1
          /\ Last(agent_messages').custom_content = AbsentCC ]_vars

====
